---- MODULE Spec2Model ----
(***************************************************************************)
(* Model of src/app.py, the "Smart Stock Analyzer Pro" Streamlit app:      *)
(* cached data functions, the three sub-scores, overall_probability,       *)
(* analyze, the single-stock tab and the market scanner.                   *)
(*                                                                         *)
(* Numbers.  Python floats are modelled by exact integers in fixed units:  *)
(* slider weights in steps of 0.05 (0..20), ratios of the profile in units *)
(* of 0.01, time in units of 1800 s.  A float that may be NaN and a        *)
(* profile attribute that may hold None are modelled as a set: {} is       *)
(* NaN/None, {v} is the number v.                                          *)
(*                                                                         *)
(* Keys.  load_price and analyze are cached per (symbol, period); one      *)
(* price_period is modelled, so a key is the symbol.  A score record keeps *)
(* Symbol, Prob, Tech, Fund, Risk and Reasons; of the display fields       *)
(* (Price, MktCap, PE, Beta, 1M%) only the fact that computing them can    *)
(* raise is kept.  Symbol is the ticker itself (".NS" stripped, which is   *)
(* one-to-one on the constituents).                                        *)
(*                                                                         *)
(* Specifications.  Spec is the whole page.  SpecScanner and SpecSingle    *)
(* are its two tabs taken alone; SpecProb and SpecTech call                *)
(* overall_probability and technical_score directly over a grid of         *)
(* arguments.                                                              *)
(***************************************************************************)
EXTENDS Integers, Sequences, FiniteSets, TLC

VARIABLES
    w_tech, w_fund, w_risk,   \* sidebar sliders, in steps of 0.05
    fnIn, fnOut,              \* argument and result of the last direct call of a scoring function
    min_prob, scan_size, cat, \* scanner filters and the chosen category
    now,                      \* wall clock, in units of TimeUnit seconds
    priceCache, infoCache,    \* st.cache_data stores of load_price, get_info,
    finCache, nseCache,       \*   get_financials, get_nse_index
    analyzeCache,             \*   and analyze
    pc,                       \* "idle", "scanning" (inside the as_completed loop) or
                              \*   "unwinding" (an exception leaves the with-block)
    STOCK_LIST, selected,     \* the scanner's locals
    futures, consumed,        \* state of each submitted future; futures as_completed has yielded
    results, table,           \* results list; the sorted frame that is displayed
    single,                   \* res of the single-stock tab
    shown, message            \* what the page shows after the run

\* -------------------------------------------------------------------------
\* Optional numbers: None / NaN and numeric values
\* -------------------------------------------------------------------------
None == {}
NaN == {}
Num(v) == {v}
Val(x) == CHOOSE v \in x : TRUE
IsNum(x) == x # {}

\* dict.get / Series.get: the stored value when the key is present, else the default
Get(d, key, default) == IF key \in DOMAIN d THEN d[key] ELSE default

\* float comparison a > b: False as soon as one side is NaN
FloatGt(a, b) == IsNum(a) /\ IsNum(b) /\ Val(a) > Val(b)

Min(a, b) == IF a < b THEN a ELSE b

\* -------------------------------------------------------------------------
\* Sidebar
\* -------------------------------------------------------------------------
\* st.slider(..., 0.0, 1.0, step=0.05): 0..20 steps of 0.05
WeightSteps == 20
Weights == 0..WeightSteps
\* every sub-score is "out of 5"
MaxSubScore == 5
SubScores == 0..MaxSubScore

ProbFloor == 15
ProbCeiling == 97

\* -------------------------------------------------------------------------
\* overall_probability(t, f, r, w_tech, w_fund, w_risk)
\*   raw = t*w_tech + f*w_fund + r*w_risk
\*   max_possible = 5*(w_tech + w_fund + w_risk)
\*   pct = raw/max_possible*100 if max_possible > 0 else 15
\*   int(min(max(pct, 15), 97))
\* The weights are in steps of 0.05, so raw and max_possible are both scaled
\* by 20 and the quotient is unchanged; int() truncates the clamped value.
\* -------------------------------------------------------------------------
\* faulty variant: the clamp into [15, 97] is dropped
overall_probability_noclamp(t, f, r, wt, wf, wr) ==
    LET raw == t * wt + f * wf + r * wr
        max_possible == 5 * (wt + wf + wr)
    IN  IF max_possible > 0 THEN (raw * 100) \div max_possible ELSE ProbFloor

overall_probability(t, f, r, wt, wf, wr) ==
    LET raw == t * wt + f * wf + r * wr
        max_possible == 5 * (wt + wf + wr)
    IN  IF max_possible > 0
        THEN IF raw * 100 <= ProbFloor * max_possible THEN ProbFloor
             ELSE IF raw * 100 >= ProbCeiling * max_possible THEN ProbCeiling
             ELSE (raw * 100) \div max_possible
        ELSE ProbFloor

\* -------------------------------------------------------------------------
\* Price history.  A DataFrame returned by yf.Ticker(symbol).history is
\* abstracted to its number of rows and the last-row values of the series
\* that technical_score derives from the Close column with pandas:
\*   Close, rolling(50).mean(), rolling(200).mean(), the 14-period RSI,
\*   the MACD line, its signal line and pct_change(22) (in units of 0.01).
\* NoDf is the None that load_price returns.
\* -------------------------------------------------------------------------
NoDf == {}
SomeDf(d) == {d}
TheDf(o) == CHOOSE d \in o : TRUE

\* columns of the frame as yfinance returns it: no SMA50 / SMA200 column yet
HistoryColumns == {"Open", "High", "Low", "Close", "Volume"}

\* df.iloc[-1]: a Series holding the last row over the columns the frame has
\* at that moment
LastRow(d, columns) == [c \in columns \cap {"Close"} |-> d.Close]

Append1(reasons, cond, text) == IF cond THEN reasons ELSE Append(reasons, text)
Point(cond) == IF cond THEN 1 ELSE 0

\* technical_score(df) -> (score, reasons)
technical_score(df) ==
    IF df = NoDf \/ TheDf(df).len < 60
    THEN [score |-> 0, reasons |-> <<"Insufficient history">>]
    ELSE
      LET d == TheDf(df)
          \* latest is taken before df['SMA50'] and df['SMA200'] are assigned
          latest == LastRow(d, HistoryColumns)
          c1 == FloatGt(latest["Close"], Get(latest, "SMA50", Num(0)))
          c2 == FloatGt(Get(latest, "SMA50", Num(0)), Get(latest, "SMA200", Num(0)))
          c3 == FloatGt(d.rsi, Num(52))
          c4 == FloatGt(d.macd, d.signal)
          c5 == FloatGt(d.ret_1m, Num(3))
          score == Point(c1) + Point(c2) + Point(c3) + Point(c4) + Point(c5)
          r1 == Append1(<< >>, c1, "Below 50 SMA")
          r2 == Append1(r1, c2, "50 SMA below 200 SMA")
          r3 == Append1(r2, c3, "RSI weak (<52)")
          r4 == Append1(r3, c4, "MACD bearish")
          r5 == Append1(r4, c5, "Weak 1M momentum")
      IN  [score |-> Min(score, 5), reasons |-> r5]

\* -------------------------------------------------------------------------
\* Company profile: yf.Ticker(symbol).info, a dict.  An attribute is absent
\* (not in the domain), present with the value None, or present with a
\* number.  Ratios are in units of 0.01.  Comparing None with a number
\* raises TypeError.
\* -------------------------------------------------------------------------
Raised == [raised |-> TRUE]
Scored(score, reasons) == [raised |-> FALSE, score |-> score, reasons |-> reasons]

\* fundamental_score(info) -> (score, reasons), or raises
fundamental_score(info) ==
    LET roe == Get(info, "returnOnEquity", Num(0))
        rev_growth == Get(info, "revenueGrowth", Num(0))
        profit_margin == Get(info, "profitMargins", Num(0))
        pe == Get(info, "trailingPE", Num(999))
        roa == Get(info, "returnOnAssets", Num(0))
    IN  IF roe = None \/ rev_growth = None \/ profit_margin = None
             \/ pe = None \/ roa = None
        THEN Raised
        ELSE
          LET c1 == Val(roe) > 18
              c2 == Val(rev_growth) > 12
              c3 == Val(profit_margin) > 15
              c4 == 8 < Val(pe) /\ Val(pe) < 32
              c5 == Val(roa) > 8
              r1 == Append1(<< >>, c1, "ROE <18%")
              r2 == Append1(r1, c2, "Sales growth weak")
              r3 == Append1(r2, c3, "Profit margin <15%")
              r4 == Append1(r3, c4, "PE out of range")
              r5 == Append1(r4, c5, "ROA weak")
          IN  Scored(Point(c1) + Point(c2) + Point(c3) + Point(c4) + Point(c5), r5)

\* -------------------------------------------------------------------------
\* Statements: get_financials returns (bs, cf), each None or a non-empty
\* frame.  A frame is abstracted to its first column, a mapping from row
\* labels to floats (NaN possible); NoFrame is None.
\* -------------------------------------------------------------------------
NoFrame == {}
SomeFrame(col) == {col}
FirstColumn(fr) == CHOOSE col \in fr : TRUE

\* risk_score(info, bs, cf) -> (score, reasons), or raises
risk_score(info, bs, cf) ==
    LET de == Get(info, "debtToEquity", Num(999))
        beta == Get(info, "beta", Num(999))
        avg_vol == Get(info, "averageVolume", Num(0))
    IN  IF de = None \/ beta = None \/ avg_vol = None
        THEN Raised
        ELSE
          \* the reason strings carry the formatted value (f"Debt/Equity {de:.1f}"),
          \* left out here
          LET c1 == Val(de) < 60
              c2 == Val(beta) < 125
              r1 == Append1(<< >>, c1, "Debt/Equity")
              r2 == Append1(r1, c2, "Beta (volatile)")
              \* operating cash flow: only when cf is available
              hasCf == cf # NoFrame
              op_cf == IF hasCf
                       THEN Get(FirstColumn(cf), "Total Cash From Operating Activities",
                                Get(FirstColumn(cf),
                                    "Net Cash Provided By Operating Activities", Num(0)))
                       ELSE Num(0)
              c3 == hasCf /\ FloatGt(op_cf, Num(0))
              r3 == IF hasCf THEN Append1(r2, c3, "Negative op. cash flow") ELSE r2
              c4 == Val(avg_vol) > 200000
              r4 == Append1(r3, c4, "Low liquidity")
              \* current ratio: only when bs is available
              hasBs == bs # NoFrame
              cur_assets == IF hasBs
                            THEN Get(FirstColumn(bs), "Total Current Assets", Num(0))
                            ELSE Num(0)
              cur_liab == IF hasBs
                          THEN Get(FirstColumn(bs), "Total Current Liabilities", Num(0))
                          ELSE Num(0)
              c5 == /\ hasBs
                    /\ FloatGt(cur_liab, Num(0))
                    /\ IsNum(cur_assets)
                    /\ Val(cur_assets) * 10 > 13 * Val(cur_liab)
              r5 == IF hasBs THEN Append1(r4, c5, "Current ratio weak") ELSE r4
          IN  Scored(Min(Point(c1) + Point(c2) + Point(c3) + Point(c4) + Point(c5), 5), r5)

\* -------------------------------------------------------------------------
\* The outside world: symbols, the NSE constituents service and Yahoo Finance
\* -------------------------------------------------------------------------
NumSymbols == 2
Symbols == 1..NumSymbols          \* tickers, numbered in ascending name order
MaxTime == 2                      \* the clock stops advancing here

Categories == {"NIFTY 100", "NIFTY MIDCAP 150", "NIFTY SMALLCAP 250"}

Ascending == [i \in 1..NumSymbols |-> i]
Descending == [i \in 1..NumSymbols |-> NumSymbols + 1 - i]
\* constituents the NSE service lists for an index, when it answers
Constituents(index_name) == IF index_name = "NIFTY 100" THEN Ascending ELSE Descending

\* history Yahoo holds for a symbol: an uptrend with close > SMA50 > SMA200
PriceOf(s) ==
    [len |-> 250, Close |-> Num(3), SMA50 |-> Num(2), SMA200 |-> Num(1),
     rsi |-> Num(60), macd |-> Num(1), signal |-> Num(0), ret_1m |-> Num(4)]
ShortPriceOf(s) == [PriceOf(s) EXCEPT !.len = 59, !.SMA200 = NaN]

GoodInfo ==
    [returnOnEquity |-> Num(25), revenueGrowth |-> Num(18), profitMargins |-> Num(20),
     trailingPE |-> Num(18), returnOnAssets |-> Num(10), debtToEquity |-> Num(20),
     beta |-> Num(100), averageVolume |-> Num(500000), currentPrice |-> Num(100),
     marketCap |-> Num(1000)]
EmptyInfo == [k \in {} |-> None]
\* the profile of symbol 2 lists returnOnEquity with the value None
InfoOf(s) == IF s = 2 THEN [GoodInfo EXCEPT !.returnOnEquity = None] ELSE GoodInfo

GoodBs == SomeFrame([c \in {"Total Current Assets", "Total Current Liabilities"} |->
                        IF c = "Total Current Assets" THEN Num(20) ELSE Num(10)])
GoodCf == SomeFrame([c \in {"Total Cash From Operating Activities"} |-> Num(5)])
FinOf(s) == <<GoodBs, GoodCf>>

\* outcomes of one provider request
PriceOutcomes == {"raise", "short", "full"}
InfoOutcomes == {"raise", "ok"}
FinOutcomes == {"raise", "ok"}
NseOutcomes == {"raise", "nodata", "ok"}

\* -------------------------------------------------------------------------
\* st.cache_data: one entry per key, valid for ttl seconds after it is stored
\* -------------------------------------------------------------------------
TimeUnit == 1800
TtlPrice == 3600 \div TimeUnit
TtlInfo == 3600 \div TimeUnit
TtlFin == 86400 \div TimeUnit
TtlNse == (86400 * 2) \div TimeUnit
TtlAnalyze == 1800 \div TimeUnit

NoEntry == [has |-> FALSE]
\* an expiry beyond the last clock value is stored as MaxTime + 1
Entry(val, ttl) == [has |-> TRUE, val |-> val, exp |-> Min(now + ttl, MaxTime + 1)]
Valid(e) == e.has /\ now < e.exp

\* -------------------------------------------------------------------------
\* Data functions: the value returned on a cache miss, given the provider's
\* outcome, and the entry the cache holds after the call
\* -------------------------------------------------------------------------
\* load_price body: df if len(df) >= 60 else None; None on any exception
load_price_body(s, out) ==
    IF out = "raise" THEN NoDf
    ELSE LET df == IF out = "short" THEN ShortPriceOf(s) ELSE PriceOf(s)
         IN  IF df.len >= 60 THEN SomeDf(df) ELSE NoDf

\* get_info body: the info dict; {} on any exception
get_info_body(s, out) == IF out = "raise" THEN EmptyInfo ELSE InfoOf(s)

\* get_financials body: (bs, cf); (None, None) on any exception
get_financials_body(s, out) == IF out = "raise" THEN <<NoFrame, NoFrame>> ELSE FinOf(s)

\* get_nse_index body: the constituents; [] on any exception or when the
\* answer lists none
get_nse_index_body(index_name, out) ==
    IF out = "ok" THEN Constituents(index_name) ELSE << >>

\* the decorator: a valid entry is returned as it is, otherwise the body
\* runs and whatever it returns is stored
Cached(entry, value, ttl) == IF Valid(entry) THEN entry ELSE Entry(value, ttl)

load_price(s, out) == Cached(priceCache[s], load_price_body(s, out), TtlPrice)
get_info(s, out) == Cached(infoCache[s], get_info_body(s, out), TtlInfo)
get_financials(s, out) == Cached(finCache[s], get_financials_body(s, out), TtlFin)
get_nse_index(index_name, out) ==
    Cached(nseCache[index_name], get_nse_index_body(index_name, out), TtlNse)

\* -------------------------------------------------------------------------
\* analyze(symbol, period)
\* -------------------------------------------------------------------------
NoRecord == {}
SomeRecord(r) == {r}
TheRecord(o) == CHOOSE r \in o : TRUE

\* the display fields: round(info.get("currentPrice", 0), 2) raises on None;
\* the marketCap expression does not; PE and Beta were compared before
display_raises(info) == Get(info, "currentPrice", Num(0)) = None

\* the body of analyze once load_price has returned a frame
analyze_scored(s, df, info, bs, cf) ==
    LET t == technical_score(df)
        f == fundamental_score(info)
        r == risk_score(info, bs, cf)
    IN  IF f.raised \/ r.raised \/ display_raises(info)
        THEN [raised |-> TRUE]
        ELSE [raised |-> FALSE,
              res |-> SomeRecord(
                  [Symbol |-> s,
                   Prob |-> overall_probability(t.score, f.score, r.score,
                                                w_tech, w_fund, w_risk),
                   Tech |-> t.score, Fund |-> f.score, Risk |-> r.score,
                   Reasons |-> t.reasons \o f.reasons \o r.reasons])]

\* One call of analyze: what it returns or that it raises, and the entries
\* of the four caches of this symbol after the call.
analyze(s, po, io, fo) ==
    IF Valid(analyzeCache[s])
    THEN [out |-> [raised |-> FALSE, res |-> analyzeCache[s].val],
          price |-> priceCache[s], info |-> infoCache[s], fin |-> finCache[s],
          an |-> analyzeCache[s]]
    ELSE
      LET pe == load_price(s, po)
      IN  IF pe.val = NoDf
          THEN [out |-> [raised |-> FALSE, res |-> NoRecord],
                price |-> pe, info |-> infoCache[s], fin |-> finCache[s],
                an |-> Entry(NoRecord, TtlAnalyze)]
          ELSE
            LET ie == get_info(s, io)
                fe == get_financials(s, fo)
                o == analyze_scored(s, pe.val, ie.val, fe.val[1], fe.val[2])
            IN  [out |-> o, price |-> pe, info |-> ie, fin |-> fe,
                 an |-> IF o.raised THEN analyzeCache[s] ELSE Entry(o.res, TtlAnalyze)]

\* the caches after a call of analyze for symbol s
StoreAnalyze(s, a) ==
    /\ priceCache' = [priceCache EXCEPT ![s] = a.price]
    /\ infoCache' = [infoCache EXCEPT ![s] = a.info]
    /\ finCache' = [finCache EXCEPT ![s] = a.fin]
    /\ analyzeCache' = [analyzeCache EXCEPT ![s] = a.an]

NoCall == [fn |-> "none"]

\* -------------------------------------------------------------------------
\* The page.  Streamlit reruns the script on every interaction: a widget
\* change clears what the previous run displayed; the caches survive.
\* -------------------------------------------------------------------------
\* slider positions the user moves between
WeightChoices == {<<8, 7, 5>>, <<20, 0, 0>>}      \* 0.40/0.35/0.25 (the defaults), 1.0/0/0
MinProbChoices == {30, 55}                        \* 55 is the default, 30 the minimum
ScanSizes == {NumSymbols - 1, NumSymbols}         \* with and without truncating the index

max_workers == 12

MsgNone == "none"
MsgIndexFailed == "Failed to load index. Try again in 30 seconds."
MsgFound == "Found stocks meeting your criteria"
MsgNoneCrossed == "No stocks crossed your minimum probability filter. Lower it and try again."

NoFuture == [st |-> "none"]
Pending == [st |-> "pending"]
Hung == [st |-> "hung"]              \* blocked in a provider request that never returns
RaisedFuture == [st |-> "raised"]
Done(res) == [st |-> "done", res |-> res]

Range(seq) == {seq[i] : i \in 1..Len(seq)}
Finished(f) == f.st \in {"done", "raised"}

cacheVars == <<priceCache, infoCache, finCache, nseCache, analyzeCache>>
sliderVars == <<w_tech, w_fund, w_risk, min_prob, scan_size, cat>>
scanVars == <<STOCK_LIST, selected, futures, consumed, results, table>>
pageVars == <<pc, single, shown, message>>
fnVars == <<fnIn, fnOut>>
vars == <<sliderVars, now, cacheVars, scanVars, pageVars, fnVars>>

\* a fresh run of the script shows nothing of the previous run
NoScan ==
    /\ STOCK_LIST' = << >> /\ selected' = << >>
    /\ futures' = [s \in Symbols |-> NoFuture]
    /\ consumed' = {} /\ results' = << >> /\ table' = << >>

ClearPage ==
    /\ NoScan
    /\ pc' = "idle" /\ single' = NoRecord /\ shown' = "none" /\ message' = MsgNone

\* the page before the first interaction: filters at their defaults (the
\* scan size at the length of the index), empty caches, nothing shown
PageAtRest ==
    /\ min_prob = 55 /\ scan_size = NumSymbols /\ cat = "NIFTY 100"
    /\ now = 0
    /\ priceCache = [s \in Symbols |-> NoEntry]
    /\ infoCache = [s \in Symbols |-> NoEntry]
    /\ finCache = [s \in Symbols |-> NoEntry]
    /\ analyzeCache = [s \in Symbols |-> NoEntry]
    /\ nseCache = [c \in Categories |-> NoEntry]
    /\ STOCK_LIST = << >> /\ selected = << >>
    /\ futures = [s \in Symbols |-> NoFuture]
    /\ consumed = {} /\ results = << >> /\ table = << >>
    /\ pc = "idle" /\ single = NoRecord /\ shown = "none" /\ message = MsgNone

Init ==
    /\ w_tech = 8 /\ w_fund = 7 /\ w_risk = 5
    /\ PageAtRest
    /\ fnIn = NoCall /\ fnOut = NoCall

\* --- sidebar and category widgets --------------------------------------
SetWeights ==
    \E w \in WeightChoices :
        /\ pc = "idle"
        /\ w # <<w_tech, w_fund, w_risk>>
        /\ w_tech' = w[1] /\ w_fund' = w[2] /\ w_risk' = w[3]
        /\ ClearPage
        /\ UNCHANGED <<min_prob, scan_size, cat, now, cacheVars, fnVars>>

SetMinProb ==
    \E m \in MinProbChoices \ {min_prob} :
        /\ pc = "idle"
        /\ min_prob' = m
        /\ ClearPage
        /\ UNCHANGED <<w_tech, w_fund, w_risk, scan_size, cat, now, cacheVars, fnVars>>

SetScanSize ==
    \E k \in ScanSizes \ {scan_size} :
        /\ pc = "idle"
        /\ k >= 1
        /\ scan_size' = k
        /\ ClearPage
        /\ UNCHANGED <<w_tech, w_fund, w_risk, min_prob, cat, now, cacheVars, fnVars>>

SetCategory ==
    \E c \in Categories \ {cat} :
        /\ pc = "idle"
        /\ cat' = c
        /\ ClearPage
        /\ UNCHANGED <<w_tech, w_fund, w_risk, min_prob, scan_size, now, cacheVars, fnVars>>

\* --- time passes ----------------------------------------------------------
Tick ==
    /\ now < MaxTime
    /\ now' = now + 1
    /\ UNCHANGED <<sliderVars, cacheVars, scanVars, pageVars, fnVars>>

\* --- single stock tab: the Analyze button --------------------------------
AnalyzeClick ==
    \E s \in Symbols, po \in PriceOutcomes, io \in InfoOutcomes, fo \in FinOutcomes :
        LET a == analyze(s, po, io, fo) IN
        /\ pc = "idle"
        /\ StoreAnalyze(s, a)
        /\ NoScan
        /\ pc' = "idle"
        /\ message' = MsgNone
        /\ IF a.out.raised
           THEN single' = NoRecord /\ shown' = "exception"
           ELSE /\ single' = a.out.res
                /\ shown' = IF a.out.res = NoRecord THEN "none" ELSE "single"
        /\ UNCHANGED <<sliderVars, now, nseCache, fnVars>>

\* --- scanner tab: the SCAN button ----------------------------------------
\* selected = STOCK_LIST[:scan_size]
Prefix(list, n) == SubSeq(list, 1, Min(n, Len(list)))

\* "if not STOCK_LIST: st.error(...) else: <scan>"
\* faulty variant: the emptiness test is missing
IndexLoaded_always(list) == TRUE
IndexLoaded(list) == list # << >>

ScanClick ==
    \E out \in NseOutcomes :
        LET e == get_nse_index(cat, out) IN
        /\ pc = "idle"
        /\ nseCache' = [nseCache EXCEPT ![cat] = e]
        /\ STOCK_LIST' = e.val
        /\ single' = NoRecord
        /\ consumed' = {} /\ results' = << >> /\ table' = << >>
        /\ IF ~IndexLoaded(e.val)
           THEN /\ selected' = << >>
                /\ futures' = [s \in Symbols |-> NoFuture]
                /\ pc' = "idle" /\ shown' = "index_failed" /\ message' = MsgIndexFailed
           ELSE /\ selected' = Prefix(e.val, scan_size)
                /\ futures' = [s \in Symbols |->
                                 IF s \in Range(Prefix(e.val, scan_size))
                                 THEN Pending ELSE NoFuture]
                /\ pc' = "scanning" /\ shown' = "none" /\ message' = MsgNone
        /\ UNCHANGED <<sliderVars, now, priceCache, infoCache, finCache, analyzeCache, fnVars>>

\* a pool thread runs analyze(s, price_period) to its end
WorkerRun ==
    \E s \in Symbols, po \in PriceOutcomes, io \in InfoOutcomes, fo \in FinOutcomes :
        LET a == analyze(s, po, io, fo) IN
        /\ pc \in {"scanning", "unwinding"}
        /\ futures[s] = Pending
        /\ Cardinality({x \in Symbols : futures[x] = Hung}) < max_workers
        /\ StoreAnalyze(s, a)
        /\ futures' = [futures EXCEPT ![s] =
                          IF a.out.raised THEN RaisedFuture ELSE Done(a.out.res)]
        /\ UNCHANGED <<sliderVars, now, nseCache, STOCK_LIST, selected, consumed,
                       results, table, pageVars, fnVars>>

\* a pool thread enters a provider request that never returns
WorkerHang ==
    \E s \in Symbols :
        /\ pc \in {"scanning", "unwinding"}
        /\ futures[s] = Pending
        /\ Cardinality({x \in Symbols : futures[x] = Hung}) < max_workers
        /\ futures' = [futures EXCEPT ![s] = Hung]
        /\ UNCHANGED <<sliderVars, now, cacheVars, STOCK_LIST, selected, consumed,
                       results, table, pageVars, fnVars>>

\* if r and r["Prob"] >= min_prob
\* faulty variant: the min_prob filter is missing
Keeps_nofilter(res) == res # NoRecord
Keeps(res) == res # NoRecord /\ TheRecord(res).Prob >= min_prob

\* one turn of "for i, fut in enumerate(as_completed(futures))"
Consume ==
    \E s \in Symbols :
        /\ pc = "scanning"
        /\ Finished(futures[s])
        /\ s \notin consumed
        /\ consumed' = consumed \cup {s}
        /\ IF futures[s].st = "raised"
           THEN pc' = "unwinding" /\ results' = results     \* fut.result() re-raises
           ELSE /\ pc' = pc
                /\ results' = IF Keeps(futures[s].res)
                              THEN Append(results, TheRecord(futures[s].res))
                              ELSE results
        /\ UNCHANGED <<sliderVars, now, cacheVars, STOCK_LIST, selected, futures, table,
                       single, shown, message, fnVars>>

\* the exception leaves the with-block: shutdown(wait=True) joins the pool first
Unwind ==
    /\ pc = "unwinding"
    /\ \A s \in Range(selected) : Finished(futures[s])
    /\ pc' = "idle" /\ shown' = "scan_exception"
    /\ UNCHANGED <<sliderVars, now, cacheVars, scanVars, single, message, fnVars>>

\* df.sort_values("Prob", ascending=False): the default sort is not stable,
\* so any arrangement of the rows with Prob descending can come out
Arrangements(n) == {p \in [1..n -> 1..n] : \A i, j \in 1..n : i # j => p[i] # p[j]}
DescendingByProb(rows) == \A i \in 1..(Len(rows) - 1) : rows[i].Prob >= rows[i + 1].Prob
\* faulty variant: ascending=False is missing
sort_values_ascending(rows) ==
    {t \in {[i \in 1..Len(rows) |-> rows[p[i]]] : p \in Arrangements(Len(rows))} :
        \A i \in 1..(Len(rows) - 1) : t[i].Prob <= t[i + 1].Prob}
sort_values(rows) ==
    {t \in {[i \in 1..Len(rows) |-> rows[p[i]]] : p \in Arrangements(Len(rows))} :
        DescendingByProb(t)}

\* as_completed is exhausted: every submitted future was yielded
\* faulty variant: the loop is left after the first future
AllYielded_first == consumed # {}
AllYielded == consumed = Range(selected)

\* the loop has ended
Finish ==
    /\ pc = "scanning"
    /\ AllYielded
    /\ pc' = "idle"
    /\ IF results # << >>
       THEN /\ table' \in sort_values(results)
            /\ shown' = "results" /\ message' = MsgFound
       ELSE /\ table' = << >>
            /\ shown' = "no_results" /\ message' = MsgNoneCrossed
    /\ UNCHANGED <<sliderVars, now, cacheVars, STOCK_LIST, selected, futures, consumed,
                   results, single, fnVars>>

Next ==
    \/ SetWeights \/ SetMinProb \/ SetScanSize \/ SetCategory
    \/ Tick
    \/ AnalyzeClick
    \/ ScanClick \/ WorkerRun \/ WorkerHang \/ Consume \/ Unwind \/ Finish

Spec == Init /\ [][Next]_vars

\* the scanner tab alone: the filters, the category and the SCAN button
NextScanner ==
    \/ SetMinProb \/ SetScanSize \/ SetCategory
    \/ ScanClick \/ WorkerRun \/ WorkerHang \/ Consume \/ Unwind \/ Finish

SpecScanner == Init /\ [][NextScanner]_vars

\* the single-stock tab alone: the weights, the clock and the Analyze button
NextSingle == SetWeights \/ Tick \/ AnalyzeClick

SpecSingle == Init /\ [][NextSingle]_vars

\* -------------------------------------------------------------------------
\* Properties of the scanner
\* -------------------------------------------------------------------------
ScanStep == WorkerRun \/ WorkerHang \/ Consume \/ Unwind \/ Finish
ScanEnded == pc = "idle" /\ shown \in {"results", "no_results"}
InResults(s) == \E i \in 1..Len(results) : results[i].Symbol = s
PriceAvailable(s) == priceCache[s].has /\ priceCache[s].val # NoDf
AmongFirst(s) == \E i \in 1..Len(STOCK_LIST) : i <= scan_size /\ STOCK_LIST[i] = s

\* C2: a failure of one symbol's analysis never aborts the batch: no
\* exception of a worker future propagates out of the as_completed loop.
C2_AsStated == pc # "unwinding" /\ shown # "scan_exception"

\* C3: after a scan that ran to its end a symbol has a record in the result
\* list iff it is among the first scan_size symbols of the resolved
\* universe, its price history was available and its overall probability is
\* at least min_prob, whatever happened to its profile and statements; and
\* no symbol has two records.
C3_Membership ==
    ScanEnded =>
        \A s \in Symbols :
            /\ InResults(s) <=>
                  /\ AmongFirst(s)
                  /\ PriceAvailable(s)
                  /\ TheRecord(futures[s].res).Prob >= min_prob
            /\ Cardinality({i \in 1..Len(results) : results[i].Symbol = s}) <= 1

C3_Witness ==
    /\ ScanEnded
    /\ scan_size < Len(STOCK_LIST)
    /\ \E s \in Symbols :
          /\ InResults(s)
          /\ infoCache[s].val = EmptyInfo
          /\ finCache[s].val = <<NoFrame, NoFrame>>

\* C4 (as stated): the displayed rows are in descending order of Prob and
\* rows of equal Prob are in ascending symbol order, whatever the order in
\* which the futures completed.
C4_AsStated ==
    shown = "results" =>
        \A i, j \in 1..Len(table) :
            i < j => \/ table[i].Prob > table[j].Prob
                     \/ table[i].Prob = table[j].Prob /\ table[i].Symbol < table[j].Symbol

\* C4 (amended): the displayed rows are the collected records in descending
\* order of Prob; the order among rows of equal Prob is not fixed.
C4_SortedByProb ==
    shown = "results" =>
        /\ Len(table) = Len(results)
        /\ Range(table) = Range(results)
        /\ \A i, j \in 1..Len(table) : i < j => table[i].Prob >= table[j].Prob

C4_Witness ==
    /\ shown = "results"
    /\ Len(table) = 2
    /\ table[1].Prob > table[2].Prob
    /\ results[1] = table[2]

\* C5: when a scan ends with no record, the message tells the case "data
\* was fetched but nothing reached min_prob" from the case "no data could be
\* fetched for any selected symbol": the message of the first case is not
\* shown in the second.
C5_AsStated ==
    (ScanEnded /\ results = << >>
       /\ \A s \in Range(selected) : futures[s].res = NoRecord)
    => message # MsgNoneCrossed

\* C6 (as stated): universe resolution never leaves the scan without
\* symbols: when the provider fails, a non-empty list is still returned and
\* the scan proceeds.
C6_AsStated == ~(shown = "index_failed" /\ STOCK_LIST = << >>)

\* C6 (amended): there is no fallback list.  When the provider fails or
\* lists no constituents, resolution returns the empty list, the page shows
\* "Failed to load index" and no scan runs; a scan runs only over a
\* non-empty list that the provider returned.
C6_NoFallback ==
    /\ shown = "index_failed" =>
          /\ STOCK_LIST = << >> /\ selected = << >>
          /\ nseCache[cat].has /\ nseCache[cat].val = << >>
          /\ message = MsgIndexFailed
          /\ pc = "idle"
          /\ \A s \in Symbols : futures[s] = NoFuture
    /\ pc \in {"scanning", "unwinding"} =>
          /\ STOCK_LIST = Constituents(cat)
          /\ selected # << >>
          /\ message # MsgIndexFailed

C6_Witness ==
    /\ shown = "index_failed"
    /\ nseCache[cat].has /\ nseCache[cat].val = << >>

\* C7 (as stated): the scan never blocks: while it is waiting for workers
\* it can always go on, by consuming a result or by giving up at its
\* deadline with what it has collected.
C7_AsStated == pc \in {"scanning", "unwinding"} => ENABLED ScanStep

\* C7 (amended): there is no deadline.  The scan ends only when every
\* selected worker has finished and its result was consumed, and then holds
\* every record that passed the filter; while a worker is blocked in a
\* provider request the scan keeps waiting.
C7_WaitsForAll ==
    /\ ScanEnded =>
          /\ \A s \in Range(selected) : futures[s].st = "done" /\ s \in consumed
          /\ Len(results) = Cardinality({s \in Range(selected) : Keeps(futures[s].res)})
    /\ (\E s \in Symbols : futures[s] = Hung) => pc \in {"scanning", "unwinding"}

C7_Witness ==
    /\ ScanEnded
    /\ Len(selected) = NumSymbols
    /\ Len(results) >= 1
    /\ \E s \in Range(selected) : futures[s].res = NoRecord

\* C8: a cache entry is created only by a successful fetch: load_price,
\* get_info, get_financials and get_nse_index never store the value of
\* their except branch (None, {}, (None, None), []), so the next call with
\* the same key asks the provider again.
C8_AsStated ==
    /\ \A s \in Symbols :
          /\ priceCache[s].has => priceCache[s].val # NoDf
          /\ infoCache[s].has => infoCache[s].val # EmptyInfo
          /\ finCache[s].has => finCache[s].val # <<NoFrame, NoFrame>>
    /\ \A c \in Categories : nseCache[c].has => nseCache[c].val # << >>

\* -------------------------------------------------------------------------
\* Properties of the single-stock tab
\* -------------------------------------------------------------------------
\* C10: the record that is shown reflects the weights in force: its Prob is
\* overall_probability(Tech, Fund, Risk) under the current sliders, also
\* when an earlier call for the same symbol is still cached.
C10_AsStated ==
    shown = "single" =>
        LET r == TheRecord(single)
        IN  r.Prob = overall_probability(r.Tech, r.Fund, r.Risk, w_tech, w_fund, w_risk)

\* -------------------------------------------------------------------------
\* Direct calls of overall_probability over the whole slider grid
\* -------------------------------------------------------------------------
restVars == <<min_prob, scan_size, cat, now, cacheVars, scanVars, pageVars>>

InitProb ==
    /\ w_tech \in Weights /\ w_fund \in Weights /\ w_risk \in Weights
    /\ fnIn \in [fn : {"overall_probability"}, t : SubScores, f : SubScores, r : SubScores]
    /\ fnOut = NoCall
    /\ PageAtRest

CallProbability ==
    /\ fnIn.fn = "overall_probability"
    /\ fnOut = NoCall
    /\ fnOut' = [fn |-> "overall_probability",
                 prob |-> overall_probability(fnIn.t, fnIn.f, fnIn.r, w_tech, w_fund, w_risk)]
    /\ UNCHANGED <<w_tech, w_fund, w_risk, fnIn, restVars>>

SpecProb == InitProb /\ [][CallProbability]_vars

\* -------------------------------------------------------------------------
\* Direct calls of technical_score over a grid of price histories
\* -------------------------------------------------------------------------
\* row counts around the 60-row minimum and the 200-row window
RowCounts == {59, 60, 250}
PriceLevels == 1..3
Floats(S) == {Num(v) : v \in S}

DfGrid ==
    {SomeDf(d) : d \in
        { x \in [len : RowCounts, Close : Floats(PriceLevels), SMA50 : Floats(PriceLevels),
                 SMA200 : Floats(PriceLevels) \cup {NaN},
                 rsi : Floats({52, 53}) \cup {NaN},
                 macd : Floats({0, 1}), signal : Floats({0}),
                 ret_1m : Floats({3, 4})] :
            \* rolling(200).mean() is NaN exactly when there are fewer than 200 rows
            (x.SMA200 = NaN) <=> (x.len < 200) }}
    \cup {NoDf}

InitTech ==
    /\ w_tech = 8 /\ w_fund = 7 /\ w_risk = 5
    /\ fnIn \in [fn : {"technical_score"}, df : DfGrid]
    /\ fnOut = NoCall
    /\ PageAtRest

CallTechnical ==
    /\ fnIn.fn = "technical_score"
    /\ fnOut = NoCall
    /\ fnOut' = [fn |-> "technical_score", res |-> technical_score(fnIn.df)]
    /\ UNCHANGED <<w_tech, w_fund, w_risk, fnIn, restVars>>

SpecTech == InitTech /\ [][CallTechnical]_vars

SufficientHistory(df) == df # NoDf /\ TheDf(df).len >= 60

\* C9: for a price series with sufficient history each of the five
\* conditions contributes one point if and only if it holds and one reason
\* otherwise: (1) close above the 50-period average, (2) 50-period average
\* above the 200-period average, (3) RSI above 52, (4) MACD above signal,
\* (5) 22-day return above 3%.
C9_AsStated ==
    (fnOut.fn = "technical_score" /\ SufficientHistory(fnIn.df)) =>
        LET d == TheDf(fnIn.df)
            c1 == FloatGt(d.Close, d.SMA50)
            c2 == FloatGt(d.SMA50, d.SMA200)
            c3 == FloatGt(d.rsi, Num(52))
            c4 == FloatGt(d.macd, d.signal)
            c5 == FloatGt(d.ret_1m, Num(3))
            InReasons(text) == \E i \in 1..Len(fnOut.res.reasons) : fnOut.res.reasons[i] = text
        IN  /\ fnOut.res.score = Point(c1) + Point(c2) + Point(c3) + Point(c4) + Point(c5)
            /\ fnOut.res.score + Len(fnOut.res.reasons) = 5
            /\ c1 <=> ~InReasons("Below 50 SMA")
            /\ c2 <=> ~InReasons("50 SMA below 200 SMA")

\* C1 (as stated): for every weight triple on the slider grid (the all-zero
\* triple included) and every sub-score triple in 0..5, overall_probability
\* returns an integer in [15, 97]; all-zero sub-scores give the floor 15 and
\* all-max sub-scores give the ceiling 97.
C1_AsStated ==
    fnOut.fn = "overall_probability" =>
        /\ fnOut.prob \in ProbFloor..ProbCeiling
        /\ (fnIn.t = 0 /\ fnIn.f = 0 /\ fnIn.r = 0) => fnOut.prob = ProbFloor
        /\ (fnIn.t = MaxSubScore /\ fnIn.f = MaxSubScore /\ fnIn.r = MaxSubScore)
              => fnOut.prob = ProbCeiling

\* C1 (amended): for every weight triple on the slider grid and every
\* sub-score triple in 0..5, overall_probability returns an integer in
\* [15, 97]; all-zero sub-scores give 15; all-max sub-scores give 97 when
\* at least one weight is positive; under the all-zero weight triple nothing
\* is divided and the result is the floor 15 for every sub-score triple.
C1_ProbInBand ==
    fnOut.fn = "overall_probability" =>
        /\ fnOut.prob \in ProbFloor..ProbCeiling
        /\ (fnIn.t = 0 /\ fnIn.f = 0 /\ fnIn.r = 0) => fnOut.prob = ProbFloor
        /\ (fnIn.t = MaxSubScore /\ fnIn.f = MaxSubScore /\ fnIn.r = MaxSubScore
              /\ w_tech + w_fund + w_risk > 0) => fnOut.prob = ProbCeiling
        /\ (w_tech + w_fund + w_risk = 0) => fnOut.prob = ProbFloor

C1_Witness ==
    /\ fnOut.fn = "overall_probability"
    /\ w_tech = 8 /\ w_fund = 7 /\ w_risk = 5
    /\ fnIn.t = 4 /\ fnIn.f = 3 /\ fnIn.r = 2
    /\ fnOut.prob = 63
====
